---- MODULE Spec2Model ----
(***************************************************************************)
(* pylaundry: fill_missing (src/pylaundry/fill_missing.py) and             *)
(* transform_columns (src/pylaundry/transform_columns.py).                 *)
(*                                                                         *)
(* The state is what a caller holds: the two DataFrame objects, the        *)
(* classification dict and the method strings, plus a history of the calls *)
(* made so far (what each call saw, how it ended, what it left behind).    *)
(* Each call of a function is one step; it is split by outcome into        *)
(* "rejects" (an assert of the up-front checks fails), "raises" (another   *)
(* exception after the checks) and "returns".                              *)
(*                                                                         *)
(* Cells are exact rationals <<n, d>> (d > 0); floating-point rounding is  *)
(* not modelled.  NaN is <<0, 0>>, a str object is <<1, 0>>.               *)
(***************************************************************************)
EXTENDS Integers, Sequences, FiniteSets, TLC

VARIABLES X_train, X_test, column_dict, num_imp, cat_imp, num_trans, cat_trans, hist

vars == <<X_train, X_test, column_dict, num_imp, cat_imp, num_trans, cat_trans, hist>>

\* Bounds of the model.
MaxRows == 2
MaxVal == 2
MaxCalls == 2

(***************************************************************************)
(* Cells and arithmetic                                                    *)
(***************************************************************************)
NaN == <<0, 0>>
Str == <<1, 0>>
Num(n) == <<n, 1>>
IsNumber(v) == v[2] > 0

RECURSIVE GCD(_, _)
GCD(a, b) == IF b = 0 THEN a ELSE GCD(b, a % b)

Abs(x) == IF x < 0 THEN -x ELSE x

Rat(n, d) == LET g == GCD(Abs(n), d) IN <<n \div g, d \div g>>

RatAdd(x, y) == Rat(x[1] * y[2] + y[1] * x[2], x[2] * y[2])

RatSub(x, y) == Rat(x[1] * y[2] - y[1] * x[2], x[2] * y[2])

RatDivInt(x, k) == Rat(x[1], x[2] * k)

RatLess(x, y) == x[1] * y[2] < y[1] * x[2]

RECURSIVE SeqSum(_)
SeqSum(s) == IF s = <<>> THEN Num(0) ELSE RatAdd(Head(s), SeqSum(Tail(s)))

RECURSIVE Insert(_, _)
Insert(x, s) ==
    IF s = <<>> THEN <<x>>
    ELSE IF RatLess(Head(s), x) THEN <<Head(s)>> \o Insert(x, Tail(s))
    ELSE <<x>> \o s

RECURSIVE Sorted(_)
Sorted(s) == IF s = <<>> THEN <<>> ELSE Insert(Head(s), Sorted(Tail(s)))

SeqRange(s) == {s[i] : i \in 1..Len(s)}

\* Series.mean / Series.median / Series.mode skip missing entries (skipna).
NonMissing(s) == SelectSeq(s, IsNumber)

\* A mean that divides by the number of rows, missing ones included.
MeanOverAllRows(s) ==
    LET xs == NonMissing(s)
    IN  IF xs = <<>> THEN NaN ELSE RatDivInt(SeqSum(xs), Len(s))

\* X_train[column].mean(): NaN when nothing is left after skipping NaN.
Mean(s) ==
    LET xs == NonMissing(s)
    IN  IF xs = <<>> THEN NaN ELSE RatDivInt(SeqSum(xs), Len(xs))

\* X_train[column].median(): the middle value, or the mean of the two middle ones.
Median(s) ==
    LET xs == Sorted(NonMissing(s))
        n  == Len(xs)
    IN  IF n = 0 THEN NaN
        ELSE IF n % 2 = 1 THEN xs[(n + 1) \div 2]
        ELSE RatDivInt(RatAdd(xs[n \div 2], xs[n \div 2 + 1]), 2)

\* The values of a set in ascending order.
RECURSIVE Ascending(_)
Ascending(S) ==
    IF S = {} THEN <<>>
    ELSE LET m == CHOOSE v \in S : \A w \in S : ~RatLess(w, v)
         IN  <<m>> \o Ascending(S \ {m})

Count(s, v) == Cardinality({i \in 1..Len(s) : s[i] = v})

\* The most frequent values with the highest first.
ModesDescending(s) ==
    LET xs   == NonMissing(s)
        best == {v \in SeqRange(xs) : \A w \in SeqRange(xs) : Count(xs, w) <= Count(xs, v)}
        asc  == Ascending(best)
    IN  [p \in 1..Len(asc) |-> asc[Len(asc) + 1 - p]]

\* X_train[column].mode(): the most frequent non-missing values, sorted ascending.
Modes(s) ==
    LET xs   == NonMissing(s)
        best == {v \in SeqRange(xs) : \A w \in SeqRange(xs) : Count(xs, w) <= Count(xs, v)}
    IN  Ascending(best)

(***************************************************************************)
(* DataFrames                                                              *)
(***************************************************************************)
\* A DataFrame: its column labels, whether they are a default RangeIndex,
\* its row labels, and one sequence of cells per column.  Anything that is
\* not a DataFrame is NotAFrame.
Frame(cols, idx, data) ==
    [isDF |-> TRUE, range |-> FALSE, columns |-> cols, index |-> idx, data |-> data]

NotAFrame ==
    [isDF |-> FALSE, range |-> FALSE, columns |-> <<>>, index |-> <<>>,
     data |-> [c \in {} |-> <<>>]]

NRows(df) == Len(df.index)

\* select_dtypes(include=["float", "int"]): the columns holding only numbers / NaN.
NumericDtypeColumns(df) ==
    {c \in SeqRange(df.columns) : \A i \in 1..NRows(df) : df.data[c][i] # Str}

\* X[column].index[mask], the mask being np.isnan or isnull of the cells:
\* the row labels of the rows whose cell is missing.
MissingLabels(df, column) ==
    {df.index[i] : i \in {j \in 1..NRows(df) : df.data[column][j] = NaN}}

\* X.loc[labels, column] = value: every row carrying one of the labels is set.
LocAssign(df, labels, column, value) ==
    [df EXCEPT !.data[column] =
        [i \in 1..NRows(df) |-> IF df.index[i] \in labels THEN value ELSE @[i]]]

(***************************************************************************)
(* fill_missing                                                            *)
(***************************************************************************)
Keys(d) == DOMAIN d

ListedColumns(d) == UNION {SeqRange(d[k]) : k \in Keys(d)}

\* The up-front checks, in the order of the asserts; "ok" when all pass.
\* column_dict is a dict and both methods are strings in every input of the
\* model, so the isinstance asserts on them always pass.  The dtype assert
\* looks at X_train only.
FillChecks(tr, te, cd, ni, ci) ==
    IF ~tr.isDF THEN "X_train must be a Pandas DF"
    ELSE IF ~te.isDF THEN "X_test must be a Pandas DF"
    ELSE IF tr.columns # te.columns THEN "X_train and X_test must have the same columns"
    ELSE IF \E k \in Keys(cd) : k \notin {"numeric", "categorical"}
        THEN "column_dict keys can be only 'numeric' and 'categorical'"
    ELSE IF \E c \in ListedColumns(cd) : c \notin SeqRange(tr.columns)
        THEN "columns in dictionary must be in dataframe"
    ELSE IF ni \notin {"mean", "median"}
        THEN "numerical imputation method can only be mean or median"
    ELSE IF ci # "mode" THEN "cat_imp can only take 'mode' as argument value"
    ELSE IF Cardinality(NumericDtypeColumns(tr)) # Cardinality(SeqRange(tr.columns))
        THEN "column values must be all numeric"
    ELSE "ok"

\* The running state of a call: both frames as written so far, the fill
\* value computed for each column in each loop, and how the call stands.
CallState(tr, te, st, m) ==
    [train |-> tr, test |-> te, status |-> st, msg |-> m,
     imp |-> [k \in {"numeric", "categorical"} |-> [c \in {} |-> NaN]]]

NoteImp(st, kind, column, value) ==
    [st EXCEPT !.imp[kind] =
        [c \in DOMAIN @ \cup {column} |-> IF c = column THEN value ELSE @[c]]]

\* A fill value taken from the frame being filled rather than from X_train.
NumericImputeValueOfTest(st, column, ni) ==
    IF ni = "mean" THEN Mean(st.test.data[column]) ELSE Median(st.test.data[column])

\* col_imp of the numeric loop: always computed on X_train.
NumericImputeValue(st, column, ni) ==
    IF ni = "mean" THEN Mean(st.train.data[column]) ELSE Median(st.train.data[column])

\* The numeric loop's body writing X_test at the labels found in X_train.
NumericBodyTrainLabels(st, column, ni) ==
    LET col_imp     == NumericImputeValue(st, column, ni)
        index_train == MissingLabels(st.train, column)
    IN  IF \E i \in 1..NRows(st.test) : st.test.data[column][i] = Str
        THEN [st EXCEPT !.status = "TypeError", !.msg = "np.isnan of a str"]
        ELSE [NoteImp(st, "numeric", column, col_imp) EXCEPT
                !.train = LocAssign(st.train, index_train, column, col_imp),
                !.test  = LocAssign(st.test, index_train, column, col_imp)]

\* One pass of the numeric loop's body.  np.isnan raises on a str cell of
\* X_test (X_train holds none once the checks have passed).
NumericBody(st, column, ni) ==
    LET col_imp     == NumericImputeValue(st, column, ni)
        index_train == MissingLabels(st.train, column)
        index_test  == MissingLabels(st.test, column)
    IN  IF \E i \in 1..NRows(st.test) : st.test.data[column][i] = Str
        THEN [st EXCEPT !.status = "TypeError", !.msg = "np.isnan of a str"]
        ELSE [NoteImp(st, "numeric", column, col_imp) EXCEPT
                !.train = LocAssign(st.train, index_train, column, col_imp),
                !.test  = LocAssign(st.test, index_test, column, col_imp)]

RECURSIVE NumericLoop(_, _, _)
NumericLoop(st, columns, ni) ==
    IF columns = <<>> \/ st.status # "ok" THEN st
    ELSE NumericLoop(NumericBody(st, Head(columns), ni), Tail(columns), ni)

\* One pass of the categorical loop's body.
CategoricalBody(st, column) ==
    LET modes       == Modes(st.train.data[column])
        index_train == MissingLabels(st.train, column)
        index_test  == MissingLabels(st.test, column)
    IN  IF modes = <<>>
        THEN [st EXCEPT !.status = "KeyError", !.msg = "mode()[0] of an empty Series"]
        ELSE [NoteImp(st, "categorical", column, modes[1]) EXCEPT
                !.train = LocAssign(st.train, index_train, column, modes[1]),
                !.test  = LocAssign(st.test, index_test, column, modes[1])]

RECURSIVE CategoricalLoop(_, _)
CategoricalLoop(st, columns) ==
    IF columns = <<>> \/ st.status # "ok" THEN st
    ELSE CategoricalLoop(CategoricalBody(st, Head(columns)), Tail(columns))

\* The whole call.  The frames are written in place, so what a failed call
\* leaves behind is whatever had been written when it failed.
fill_missing(tr, te, cd, ni, ci) ==
    LET checks == FillChecks(tr, te, cd, ni, ci)
        s0     == CallState(tr, te, "ok", "")
    IN  IF checks # "ok" THEN CallState(tr, te, "AssertionError", checks)
        ELSE IF "numeric" \notin Keys(cd)
            THEN CallState(tr, te, "KeyError", "column_dict['numeric']")
        ELSE LET s1 == NumericLoop(s0, cd["numeric"], ni)
             IN  IF s1.status # "ok" THEN s1
                 ELSE IF "categorical" \notin Keys(cd)
                     THEN [s1 EXCEPT !.status = "KeyError",
                                     !.msg = "column_dict['categorical']"]
                 ELSE CategoricalLoop(s1, cd["categorical"])

(***************************************************************************)
(* Inputs of fill_missing                                                  *)
(***************************************************************************)
Columns == <<"a", "b">>

UniqueIndex(n) == [i \in 1..n |-> i]

\* Row labels with the first label repeated on the second row.
RepeatedIndex(n) == [i \in 1..n |-> IF i = 1 THEN 1 ELSE i - 1]

Indexes(n) == {UniqueIndex(n), RepeatedIndex(n)}

Numbers == {Num(v) : v \in 1..MaxVal}

AllOf(n, v) == [i \in 1..n |-> v]

\* Column "a" ranges over every content; column "b" is all missing, all
\* present, or missing on its first row only.
TrainFramesOf(n) ==
    {Frame(Columns, idx, [c \in {"a", "b"} |-> IF c = "a" THEN a ELSE b]) :
        idx \in Indexes(n),
        a \in [1..n -> {NaN} \cup Numbers],
        b \in {AllOf(n, NaN), AllOf(n, Num(1)),
               [i \in 1..n |-> IF i = 1 THEN NaN ELSE Num(1)]}}

TestFramesOf(n) ==
    {Frame(Columns, idx, [c \in {"a", "b"} |-> IF c = "a" THEN a ELSE b]) :
        idx \in Indexes(n),
        a \in [1..n -> {NaN, Num(1)}],
        b \in {AllOf(n, NaN), AllOf(n, Num(1))}}

\* A test set holding a str in one column (object dtype).
StrTestFrames ==
    {Frame(Columns, UniqueIndex(1), [c \in {"a", "b"} |-> IF c = s THEN <<Str>> ELSE <<NaN>>]) :
        s \in {"a", "b"}}

\* Three rows of which the first two share a label.
RepeatedLabelsTrain ==
    Frame(Columns, RepeatedIndex(3),
          [c \in {"a", "b"} |-> IF c = "a" THEN <<NaN, Num(1), Num(3)>>
                                ELSE <<Num(2), NaN, Num(1)>>])

\* The examples of the specification: [1, 2, missing, 4] and [1, 1, 2, 2].
ExampleTrain ==
    Frame(Columns, UniqueIndex(4),
          [c \in {"a", "b"} |-> IF c = "a" THEN <<Num(1), Num(2), NaN, Num(4)>>
                                ELSE <<Num(1), Num(1), Num(2), Num(2)>>])

ExampleTest ==
    Frame(Columns, UniqueIndex(2),
          [c \in {"a", "b"} |-> IF c = "a" THEN <<NaN, Num(3)>> ELSE <<NaN, Num(2)>>])

ColLists == {<<>>, <<"a">>, <<"b">>, <<"a", "b">>}

\* Classification dicts: both keys, one key, or none.
FillDicts ==
    {[k \in {"numeric", "categorical"} |-> IF k = "numeric" THEN n ELSE c] :
        n \in ColLists, c \in {l \in ColLists : Len(l) <= 1}}
    \cup {[k \in {"numeric", "categorical"} |-> IF k = "numeric" THEN <<>> ELSE <<"a", "b">>]}
    \cup {[k \in {key} |-> l] : key \in {"numeric", "categorical"}, l \in {<<"a">>, <<"a", "b">>}}
    \cup {[k \in {} |-> <<>>]}

\* Small frames for the inputs the checks are meant to turn away.
BaseTrain ==
    Frame(Columns, UniqueIndex(2),
          [c \in {"a", "b"} |-> IF c = "a" THEN <<Num(1), NaN>> ELSE <<NaN, Num(1)>>])

BaseTest ==
    Frame(Columns, UniqueIndex(1), [c \in {"a", "b"} |-> <<NaN>>])

StrTrain ==
    Frame(Columns, UniqueIndex(2),
          [c \in {"a", "b"} |-> IF c = "a" THEN <<Num(1), NaN>> ELSE <<Str, Str>>])

OtherColumnsTests ==
    {Frame(<<"a", "c">>, UniqueIndex(1), [c \in {"a", "c"} |-> <<NaN>>]),
     Frame(<<"b", "a">>, UniqueIndex(1), [c \in {"a", "b"} |-> <<NaN>>]),
     Frame(<<"a">>, UniqueIndex(1), [c \in {"a"} |-> <<NaN>>])}

BaseDict == [k \in {"numeric", "categorical"} |-> IF k = "numeric" THEN <<"a">> ELSE <<"b">>]

\* Both columns numeric, "b" filled first.
BothNumericDict ==
    [k \in {"numeric", "categorical"} |-> IF k = "numeric" THEN <<"b", "a">> ELSE <<>>]

OddDicts ==
    {[k \in {"numeric", "other"} |-> <<"a">>],
     [k \in {"numeric", "categorical"} |-> IF k = "numeric" THEN <<"a">> ELSE <<"c">>]}

TransformIdle == num_trans = "standard_scaling" /\ cat_trans = "onehot_encoding"

\* Numeric frames of matching columns and well-formed method strings: one of
\* the two frames has a single row, the other any number up to MaxRows.
InitFillData ==
    /\ \/ /\ X_train \in UNION {TrainFramesOf(n) : n \in 1..MaxRows}
          /\ X_test \in TestFramesOf(1)
       \/ /\ X_train \in TrainFramesOf(1)
          /\ X_test \in UNION {TestFramesOf(n) : n \in 1..MaxRows}
       \/ /\ X_train \in {ExampleTrain, RepeatedLabelsTrain}
          /\ X_test = ExampleTest
    /\ column_dict \in FillDicts
    /\ num_imp \in {"mean", "median"}
    /\ cat_imp = "mode"

\* The inputs the checks are there for: something that is no DataFrame,
\* other columns in X_test, str cells, odd keys, unlisted columns, odd methods.
InitFillOdd ==
    /\ X_train \in {BaseTrain, NotAFrame, StrTrain}
    /\ X_test \in {BaseTest, NotAFrame} \cup OtherColumnsTests \cup StrTestFrames
    /\ column_dict \in {BaseDict, BothNumericDict} \cup OddDicts
    /\ num_imp \in {"mean", "median", "mode"}
    /\ cat_imp \in {"mode", "median"}

InitFill ==
    /\ InitFillData \/ InitFillOdd
    /\ TransformIdle
    /\ hist = <<>>

(***************************************************************************)
(* Calls of fill_missing                                                   *)
(***************************************************************************)
\* What a call saw on entry, how it ended, and the two frames after it.
FillRecord(r) ==
    [pre_train |-> X_train, pre_test |-> X_test, status |-> r.status,
     post_train |-> r.train, post_test |-> r.test, imp |-> r.imp]

FillEffect(r) ==
    /\ X_train' = r.train
    /\ X_test' = r.test
    /\ hist' = Append(hist, FillRecord(r))
    /\ UNCHANGED <<column_dict, num_imp, cat_imp, num_trans, cat_trans>>

\* A call that one of the asserts stops.
FillMissingRejects ==
    /\ Len(hist) < MaxCalls
    /\ LET r == fill_missing(X_train, X_test, column_dict, num_imp, cat_imp)
       IN  r.status = "AssertionError" /\ FillEffect(r)

\* A call that passes the asserts and ends in another exception.
FillMissingRaises ==
    /\ Len(hist) < MaxCalls
    /\ LET r == fill_missing(X_train, X_test, column_dict, num_imp, cat_imp)
       IN  r.status \in {"KeyError", "TypeError"} /\ FillEffect(r)

\* A call that returns {"X_train": X_train, "X_test": X_test}.
FillMissingReturns ==
    /\ Len(hist) < MaxCalls
    /\ LET r == fill_missing(X_train, X_test, column_dict, num_imp, cat_imp)
       IN  r.status = "ok" /\ FillEffect(r)

NextFill == FillMissingRejects \/ FillMissingRaises \/ FillMissingReturns

SpecFill == InitFill /\ [][NextFill]_vars

(***************************************************************************)
(* transform_columns                                                       *)
(***************************************************************************)
\* The checks, in the order of the asserts; "ok" when all pass.  column_dict
\* is a dict and both methods are strings in every input of the model.
TransformChecks(tr, te, cd, ct, nt) ==
    IF ~tr.isDF THEN "X_train should be a DataFrame"
    ELSE IF ~te.isDF THEN "X_test should be a DataFrame"
    ELSE IF tr.range \/ te.range THEN "column names must be strings"
    ELSE IF Cardinality(Keys(cd)) # 2
        THEN "column_dict should have 2 keys - 'numeric' and 'categorical'"
    ELSE IF \E k \in Keys(cd) : k \notin {"numeric", "categorical"}
        THEN "column_dict keys can be only 'numeric' and 'categorical'"
    ELSE IF nt \notin {"standard_scaling", "minmax_scaling"}
        THEN "transformation method for numeric columns"
    ELSE IF ct \notin {"onehot_encoding", "label_encoding"}
        THEN "transformation method for categorical columns"
    ELSE IF tr.columns # te.columns THEN "X_train and X_test must have the same columns"
    ELSE IF \E c \in ListedColumns(cd) : c \notin SeqRange(tr.columns)
        THEN "columns in dictionary must be in dataframe"
    ELSE "ok"

RatMul(x, y) == Rat(x[1] * y[1], x[2] * y[2])

RatDiv(x, y) == IF y[1] < 0 THEN Rat(-(x[1] * y[2]), x[2] * (-y[1]))
                ELSE Rat(x[1] * y[2], x[2] * y[1])

\* StandardScaler.fit: mean_ and var_ (population variance) of a column.
\* MinMaxScaler.fit: data_min_ and data_max_.
ScalerFit(nt, col) ==
    IF nt = "standard_scaling"
    THEN LET mean == Mean(col)
             dev2 == [i \in 1..Len(col) |-> RatMul(RatSub(col[i], mean), RatSub(col[i], mean))]
         IN  [mean |-> mean, var |-> RatDivInt(SeqSum(dev2), Len(col))]
    ELSE LET asc == Sorted(col)
         IN  [min |-> asc[1], max |-> asc[Len(asc)]]

\* The scalers' transform.  A standard score (x - mean) / sqrt(var) is kept
\* exactly as its signed square; a zero var or a zero range scales by 1.
ScalerApply(nt, fitted, x) ==
    IF nt = "standard_scaling"
    THEN LET dev  == RatSub(x, fitted.mean)
             sq   == IF fitted.var = Num(0) THEN RatMul(dev, dev)
                     ELSE RatDiv(RatMul(dev, dev), fitted.var)
         IN  IF dev[1] < 0 THEN <<-sq[1], sq[2]>> ELSE sq
    ELSE LET span == RatSub(fitted.max, fitted.min)
         IN  IF span = Num(0) THEN RatSub(x, fitted.min)
             ELSE RatDiv(RatSub(x, fitted.min), span)

\* OneHotEncoder.fit / OrdinalEncoder.fit: categories_, the sorted levels.
EncoderFit(col) == Ascending(SeqRange(col))

Position(seq, x) == CHOOSE p \in 1..Len(seq) : seq[p] = x

\* One cell encoded: the indicators of every level but the first
\* (drop='first'), or the level's code.
EncoderApply(ct, categories, x) ==
    IF ct = "onehot_encoding"
    THEN [p \in 1..(Len(categories) - 1) |->
             IF categories[p + 1] = x THEN Num(1) ELSE Num(0)]
    ELSE <<Num(Position(categories, x) - 1)>>

\* The labels of output columns: a column's own name, or name_level.
Plain(name) == <<name, <<>>>>

FeatureName(name, level) == <<name, <<level>>>>

\* Feature names for every level, the first included.
RECURSIVE FeatureNamesAllLevels(_, _)
FeatureNamesAllLevels(cats, categorical) ==
    IF categorical = <<>> THEN <<>>
    ELSE [p \in 1..Len(Head(cats)) |-> FeatureName(Head(categorical), Head(cats)[p])]
         \o FeatureNamesAllLevels(Tail(cats), Tail(categorical))

\* OneHotEncoder.get_feature_names(categorical), first levels dropped.
RECURSIVE FeatureNames(_, _)
FeatureNames(cats, categorical) ==
    IF categorical = <<>> THEN <<>>
    ELSE [p \in 1..(Len(Head(cats)) - 1) |-> FeatureName(Head(categorical), Head(cats)[p + 1])]
         \o FeatureNames(Tail(cats), Tail(categorical))

\* ColumnTransformer.fit: each transformer fitted on its columns of X.
Fit(X, numeric, categorical, ct, nt) ==
    [numeric     |-> numeric,
     categorical |-> categorical,
     scalers     |-> [p \in 1..Len(numeric) |-> ScalerFit(nt, X.data[numeric[p]])],
     categories  |-> [p \in 1..Len(categorical) |-> EncoderFit(X.data[categorical[p]])]]

RECURSIVE Concat(_)
Concat(ss) == IF ss = <<>> THEN <<>> ELSE Head(ss) \o Concat(Tail(ss))

\* A level the encoder was not fitted on (handle_unknown='error').
HasUnknownLevel(fitted, X) ==
    \E p \in 1..Len(fitted.categorical) : \E i \in 1..NRows(X) :
        X.data[fitted.categorical[p]][i] \notin SeqRange(fitted.categories[p])

\* ColumnTransformer.transform: the scaled numeric columns, then the encoded
\* categorical columns, row by row.
Transform(fitted, X, ct, nt) ==
    [i \in 1..NRows(X) |->
        [p \in 1..Len(fitted.numeric) |->
            ScalerApply(nt, fitted.scalers[p], X.data[fitted.numeric[p]][i])]
        \o Concat([p \in 1..Len(fitted.categorical) |->
            EncoderApply(ct, fitted.categories[p], X.data[fitted.categorical[p]][i])])]

\* pd.DataFrame(array, index=..., columns=...): a new frame.
NewFrame(rows, idx, cols) == [columns |-> cols, index |-> idx, rows |-> rows]

NoFrame == NewFrame(<<>>, <<>>, <<>>)

NoFit == [numeric |-> <<>>, categorical |-> <<>>, scalers |-> <<>>, categories |-> <<>>]

\* The frame transform(X_test) is computed with: re-fitted on X_test.
TestFitRefitted(fitted, te, ct, nt) == Fit(te, fitted.numeric, fitted.categorical, ct, nt)

\* The frame transform(X_test) is computed with: the preprocessor as fitted on X_train.
TestFit(fitted, te, ct, nt) == fitted

\* The caller's frame with its numeric columns scaled in place.
ArgumentScaledInPlace(df, fitted, nt) ==
    [df EXCEPT !.data =
        [c \in DOMAIN @ |->
            IF c \in SeqRange(fitted.numeric)
            THEN [i \in 1..NRows(df) |->
                    ScalerApply(nt, fitted.scalers[Position(fitted.numeric, c)], @[c][i])]
            ELSE @[c]]]

\* The caller's frame after the call: fit_transform and transform copy, and
\* X_train = pd.DataFrame(...) only rebinds the local name.
ArgumentAfter(df, fitted, nt) == df

TransformResult(st, m, fitted, train_out, test_out, tr, te) ==
    [status |-> st, msg |-> m, fitted |-> fitted, train |-> train_out, test |-> test_out,
     arg_train |-> tr, arg_test |-> te]

\* The whole call.  With no categorical column the 'ohe' transformer is never
\* fitted and get_feature_names raises; a level of X_test the encoder has
\* not seen makes transform raise.
transform_columns(tr, te, cd, ct, nt) ==
    LET checks == TransformChecks(tr, te, cd, ct, nt)
    IN  IF checks # "ok"
        THEN TransformResult("AssertionError", checks, NoFit, NoFrame, NoFrame, tr, te)
        ELSE
        LET numeric     == cd["numeric"]
            categorical == cd["categorical"]
            fitted      == Fit(tr, numeric, categorical, ct, nt)
            columns     == [p \in 1..Len(numeric) |-> Plain(numeric[p])]
                           \o (IF ct = "onehot_encoding"
                               THEN FeatureNames(fitted.categories, categorical)
                               ELSE [p \in 1..Len(categorical) |-> Plain(categorical[p])])
            train_out   == NewFrame(Transform(fitted, tr, ct, nt), tr.index, columns)
            used        == TestFit(fitted, te, ct, nt)
            tr_after    == ArgumentAfter(tr, fitted, nt)
        IN  IF ct = "onehot_encoding" /\ categorical = <<>>
            THEN TransformResult("NotFittedError", "get_feature_names of an unfitted encoder",
                                 fitted, NoFrame, NoFrame, tr_after, te)
            ELSE IF HasUnknownLevel(used, te)
            THEN TransformResult("ValueError", "Found unknown categories",
                                 fitted, NoFrame, NoFrame, tr_after, te)
            ELSE TransformResult("ok", "", fitted, train_out,
                                 NewFrame(Transform(used, te, ct, nt), te.index, columns),
                                 tr_after, ArgumentAfter(te, used, nt))

(***************************************************************************)
(* Inputs and calls of transform_columns                                   *)
(***************************************************************************)
\* Column "a" ranges over every content; column "b" is constant or cycles
\* through the levels.
TransformTrainFramesOf(n) ==
    {Frame(Columns, UniqueIndex(n), [c \in {"a", "b"} |-> IF c = "a" THEN a ELSE b]) :
        a \in [1..n -> Numbers],
        b \in {AllOf(n, Num(1)), [i \in 1..n |-> Num(((i - 1) % MaxVal) + 1)]}}

TransformTestFramesOf(n) ==
    {Frame(Columns, UniqueIndex(n), [c \in {"a", "b"} |-> IF c = "a" THEN a ELSE b]) :
        a \in [1..n -> Numbers],
        b \in {AllOf(n, Num(1)), AllOf(n, Num(MaxVal))}}

TransformDicts ==
    {[k \in {"numeric", "categorical"} |-> IF k = "numeric" THEN n ELSE c] :
        n \in ColLists, c \in ColLists}

\* A frame whose columns are the default RangeIndex.
Positional(df) == [df EXCEPT !.range = TRUE]

OddTransformDicts ==
    {[k \in {"numeric"} |-> <<"a">>],
     [k \in {"numeric", "other"} |-> <<"a">>],
     [k \in {"numeric", "categorical", "other"} |-> <<"a">>],
     [k \in {"numeric", "categorical"} |-> IF k = "numeric" THEN <<"a">> ELSE <<"c">>]}

TransformBase ==
    Frame(Columns, UniqueIndex(2),
          [c \in {"a", "b"} |-> IF c = "a" THEN <<Num(1), Num(2)>> ELSE <<Num(1), Num(1)>>])

FillIdle == num_imp = "mean" /\ cat_imp = "mode"

InitTransformData ==
    /\ \/ /\ X_train \in UNION {TransformTrainFramesOf(n) : n \in 1..MaxRows}
          /\ X_test \in TransformTestFramesOf(1)
       \/ /\ X_train \in TransformTrainFramesOf(1)
          /\ X_test \in UNION {TransformTestFramesOf(n) : n \in 1..MaxRows}
    /\ column_dict \in TransformDicts
    /\ num_trans \in {"standard_scaling", "minmax_scaling"}
    /\ cat_trans \in {"onehot_encoding", "label_encoding"}

\* The inputs the checks are there for.
InitTransformOdd ==
    /\ X_train \in {TransformBase, NotAFrame, Positional(TransformBase)}
    /\ X_test \in {TransformBase, NotAFrame, Positional(TransformBase)} \cup OtherColumnsTests
    /\ column_dict \in {BaseDict} \cup OddTransformDicts
    /\ num_trans \in {"standard_scaling", "minmax_scaling", "robust_scaling"}
    /\ cat_trans \in {"onehot_encoding", "label_encoding", "target_encoding"}

InitTransform ==
    /\ InitTransformData \/ InitTransformOdd
    /\ FillIdle
    /\ hist = <<>>

\* What a call saw on entry, how it ended, and what it returned.
TransformRecord(r) ==
    [pre_train |-> X_train, pre_test |-> X_test, status |-> r.status,
     fitted |-> r.fitted, ret_train |-> r.train, ret_test |-> r.test]

TransformEffect(r) ==
    /\ X_train' = r.arg_train
    /\ X_test' = r.arg_test
    /\ hist' = Append(hist, TransformRecord(r))
    /\ UNCHANGED <<column_dict, num_imp, cat_imp, num_trans, cat_trans>>

\* A call that one of the asserts stops.
TransformColumnsRejects ==
    /\ Len(hist) < MaxCalls
    /\ LET r == transform_columns(X_train, X_test, column_dict, cat_trans, num_trans)
       IN  r.status = "AssertionError" /\ TransformEffect(r)

\* A call that passes the asserts and fails inside the preprocessor.
TransformColumnsRaises ==
    /\ Len(hist) < MaxCalls
    /\ LET r == transform_columns(X_train, X_test, column_dict, cat_trans, num_trans)
       IN  r.status \in {"NotFittedError", "ValueError"} /\ TransformEffect(r)

\* A call that returns {'X_train': X_train, 'X_test': X_test}.
TransformColumnsReturns ==
    /\ Len(hist) < MaxCalls
    /\ LET r == transform_columns(X_train, X_test, column_dict, cat_trans, num_trans)
       IN  r.status = "ok" /\ TransformEffect(r)

NextTransform ==
    TransformColumnsRejects \/ TransformColumnsRaises \/ TransformColumnsReturns

SpecTransform == InitTransform /\ [][NextTransform]_vars

(***************************************************************************)
(* Properties of fill_missing                                              *)
(***************************************************************************)
Calls == 1..Len(hist)

Listed(kind) == IF kind \in Keys(column_dict) THEN SeqRange(column_dict[kind]) ELSE {}

Rows(df) == 1..NRows(df)

RatLeq(x, y) == ~RatLess(y, x)

\* v is the arithmetic mean of the numbers xs: the deviations from it sum to zero.
IsMeanOf(v, xs) ==
    /\ IsNumber(v)
    /\ SeqSum([i \in 1..Len(xs) |-> RatSub(xs[i], v)]) = Num(0)

\* x is the k-th smallest of xs.
IsOrderStat(x, k, xs) ==
    /\ x \in SeqRange(xs)
    /\ Cardinality({i \in 1..Len(xs) : RatLess(xs[i], x)}) < k
    /\ k <= Cardinality({i \in 1..Len(xs) : RatLeq(xs[i], x)})

\* v is the median of xs: the middle one, or halfway between the two middle ones.
IsMedianOf(v, xs) ==
    LET n == Len(xs)
    IN  IF n % 2 = 1 THEN IsOrderStat(v, (n + 1) \div 2, xs)
        ELSE \E x, y \in SeqRange(xs) :
                /\ IsOrderStat(x, n \div 2, xs)
                /\ IsOrderStat(y, n \div 2 + 1, xs)
                /\ IsNumber(v)
                /\ RatAdd(v, v) = RatAdd(x, y)

\* v is the lowest of the most frequent values of xs.
IsLowestModeOf(v, xs) ==
    /\ v \in SeqRange(xs)
    /\ \A w \in SeqRange(xs) :
          \/ Count(xs, w) < Count(xs, v)
          \/ Count(xs, w) = Count(xs, v) /\ RatLeq(v, w)

\* Every cell of the column that was missing in `before` holds v in `after`.
MissingReplacedBy(before, after, c, v) ==
    \A i \in Rows(before) : before.data[c][i] = NaN => after.data[c][i] = v

\* C1: a call of fill_missing that fails (whatever the exception) has written
\* no cell: both datasets hold their pre-call values.
C1_FailedCallWroteNothing ==
    \A k \in Calls :
        hist[k].status # "ok" =>
            /\ hist[k].post_train = hist[k].pre_train
            /\ hist[k].post_test = hist[k].pre_test

\* C1, as far as it holds: a call the asserts stop has written no cell.
C1_RejectedCallWroteNothing ==
    \A k \in Calls :
        hist[k].status = "AssertionError" =>
            /\ hist[k].post_train = hist[k].pre_train
            /\ hist[k].post_test = hist[k].pre_test

\* The inputs the checks of fill_missing are said to turn away.
FillMalformed(tr, te) ==
    \/ ~tr.isDF
    \/ ~te.isDF
    \/ tr.columns # te.columns
    \/ \E k \in Keys(column_dict) : k \notin {"numeric", "categorical"}
    \/ \E c \in ListedColumns(column_dict) : c \notin SeqRange(tr.columns)
    \/ num_imp \notin {"mean", "median"}
    \/ cat_imp # "mode"
    \/ \E df \in {tr, te} : \E c \in SeqRange(df.columns) : \E i \in Rows(df) :
          df.data[c][i] = Str

\* C4 (fill_missing): every malformed input, a dataset column of non-numeric
\* dtype included, ends in an assertion failure.
C4_FillMalformedRejected ==
    \A k \in Calls :
        FillMalformed(hist[k].pre_train, hist[k].pre_test) =>
            hist[k].status = "AssertionError"

\* C4 (fill_missing), as far as it holds: the same with the dtype clause
\* read for the reference dataset alone, and no other input is turned away.
C4_FillMalformedReferenceRejected ==
    \A k \in Calls :
        LET tr == hist[k].pre_train
            te == hist[k].pre_test
        IN  (\/ FillMalformed(tr, tr)
             \/ ~te.isDF
             \/ tr.columns # te.columns) <=> hist[k].status = "AssertionError"

\* C5: a successful call keeps both row indexes, every cell that was not
\* missing, and every column the classification does not list.
C5_OnlyMissingCellsChange ==
    \A k \in Calls :
        hist[k].status = "ok" =>
            \A pair \in {<<hist[k].pre_train, hist[k].post_train>>,
                         <<hist[k].pre_test, hist[k].post_test>>} :
                LET before == pair[1]
                    after  == pair[2]
                IN  /\ after.index = before.index
                    /\ after.columns = before.columns
                    /\ \A c \in SeqRange(before.columns) :
                          /\ \A i \in Rows(before) :
                                before.data[c][i] # NaN =>
                                    after.data[c][i] = before.data[c][i]
                          /\ c \notin ListedColumns(column_dict) =>
                                after.data[c] = before.data[c]

UniqueLabels(df) == Cardinality(SeqRange(df.index)) = NRows(df)

\* C5, as far as it holds: the same for calls on datasets whose row labels
\* are unique.
C5_OnlyMissingCellsChangeUniqueLabels ==
    \A k \in Calls :
        /\ hist[k].status = "ok"
        /\ UniqueLabels(hist[k].pre_train)
        /\ UniqueLabels(hist[k].pre_test)
        => \A pair \in {<<hist[k].pre_train, hist[k].post_train>>,
                        <<hist[k].pre_test, hist[k].post_test>>} :
                /\ pair[2].index = pair[1].index
                /\ \A c \in SeqRange(pair[1].columns) : \A i \in Rows(pair[1]) :
                      pair[1].data[c][i] # NaN \/ c \notin ListedColumns(column_dict) =>
                          pair[2].data[c][i] = pair[1].data[c][i]

\* C6: for a column listed under 'numeric' the fill value is the mean or the
\* median of the reference column's non-missing values (7/3 and 2 for
\* [1, 2, missing, 4]), and it replaces every missing entry of the column in
\* both datasets.
C6_NumericImputation ==
    \A k \in Calls :
        hist[k].status = "ok" =>
            \A c \in Listed("numeric") :
                LET ref == hist[k].pre_train.data[c]
                    xs  == NonMissing(ref)
                    v   == hist[k].imp["numeric"][c]
                IN  /\ xs # <<>> /\ num_imp = "mean" => IsMeanOf(v, xs)
                    /\ xs # <<>> /\ num_imp = "median" => IsMedianOf(v, xs)
                    /\ ref = <<Num(1), Num(2), NaN, Num(4)>> =>
                          v = IF num_imp = "mean" THEN <<7, 3>> ELSE <<2, 1>>
                    /\ MissingReplacedBy(hist[k].pre_train, hist[k].post_train, c, v)
                    /\ MissingReplacedBy(hist[k].pre_test, hist[k].post_test, c, v)

C6_Witness ==
    \E k \in Calls :
        /\ hist[k].status = "ok"
        /\ "a" \in Listed("numeric")
        /\ num_imp = "mean"
        /\ hist[k].pre_train.data["a"] = <<Num(1), Num(2), NaN, Num(4)>>
        /\ hist[k].post_train.data["a"] = <<Num(1), Num(2), <<7, 3>>, Num(4)>>
        /\ hist[k].pre_test.data["a"][1] = NaN
        /\ hist[k].post_test.data["a"][1] = <<7, 3>>

\* The mode statement for one column of one call.
ModeFills(k, c) ==
    LET xs == NonMissing(hist[k].pre_train.data[c])
        v  == hist[k].imp["categorical"][c]
    IN  /\ IsLowestModeOf(v, xs)
        /\ MissingReplacedBy(hist[k].pre_train, hist[k].post_train, c, v)
        /\ MissingReplacedBy(hist[k].pre_test, hist[k].post_test, c, v)

\* C7 as stated: for every column listed under 'categorical' the fill value
\* is the lowest of the most frequent non-missing reference values, and it
\* replaces every missing entry of the column in both datasets.
C7_ModeFillsEveryCategorical ==
    \A k \in Calls :
        hist[k].status = "ok" => \A c \in Listed("categorical") : ModeFills(k, c)

\* C7 (amended): the same for every column listed under 'categorical' and
\* not also under 'numeric'; reference [1, 1, 2, 2] gives 1.
C7_ModeFillsCategoricalOnly ==
    \A k \in Calls :
        hist[k].status = "ok" =>
            \A c \in Listed("categorical") \ Listed("numeric") :
                /\ ModeFills(k, c)
                /\ hist[k].pre_train.data[c] = <<Num(1), Num(1), Num(2), Num(2)>> =>
                      hist[k].imp["categorical"][c] = Num(1)

C7_Witness ==
    \E k \in Calls :
        /\ hist[k].status = "ok"
        /\ "b" \in Listed("categorical") \ Listed("numeric")
        /\ hist[k].pre_train.data["b"] = <<Num(1), Num(1), Num(2), Num(2)>>
        /\ hist[k].pre_test.data["b"][1] = NaN
        /\ hist[k].post_test.data["b"][1] = Num(1)

\* Targets to compare a call with: other frames of the same columns.
OtherTargets ==
    {ExampleTest,
     Frame(Columns, UniqueIndex(1), [c \in {"a", "b"} |-> <<NaN>>]),
     Frame(Columns, RepeatedIndex(2), [c \in {"a", "b"} |-> <<Num(MaxVal), NaN>>])}

\* C2: the fill values and the final reference dataset of a successful call
\* are those of a call with the same reference dataset, classification and
\* methods and any other target.
C2_FillIgnoresTarget ==
    \A k \in Calls :
        hist[k].status = "ok" =>
            \A other \in OtherTargets :
                LET r == fill_missing(hist[k].pre_train, other, column_dict, num_imp, cat_imp)
                IN  r.status = "ok" =>
                        /\ r.imp = hist[k].imp
                        /\ r.train = hist[k].post_train

C2_Witness ==
    \E k \in Calls :
        /\ hist[k].status = "ok"
        /\ "a" \in Listed("numeric")
        /\ hist[k].pre_test.data["a"] = <<Num(1), NaN>>
        /\ hist[k].pre_train.data["a"] = <<Num(MaxVal)>>
        /\ hist[k].post_test.data["a"] = <<Num(1), Num(MaxVal)>>
        /\ hist[k].imp["numeric"]["a"] = Num(MaxVal)

\* Every classified column has a non-missing value in the reference dataset.
ReferenceHasValues(df) ==
    \A c \in ListedColumns(column_dict) : NonMissing(df.data[c]) # <<>>

NoMissingIn(df) ==
    \A c \in ListedColumns(column_dict) : \A i \in Rows(df) : df.data[c][i] # NaN

\* C10: after a successful call on a reference dataset with a non-missing
\* value in every classified column, no classified column has a missing
\* entry in either dataset, and the next call with the same arguments
\* succeeds and changes nothing.
C10_FillIsComplete ==
    \A k \in Calls :
        hist[k].status = "ok" /\ ReferenceHasValues(hist[k].pre_train) =>
            /\ NoMissingIn(hist[k].post_train)
            /\ NoMissingIn(hist[k].post_test)
            /\ k + 1 \in Calls =>
                  /\ hist[k + 1].status = "ok"
                  /\ hist[k + 1].post_train = hist[k + 1].pre_train
                  /\ hist[k + 1].post_test = hist[k + 1].pre_test

C10_Witness ==
    /\ Len(hist) >= 2
    /\ hist[1].status = "ok"
    /\ hist[2].status = "ok"
    /\ \E c \in ListedColumns(column_dict) : \E i \in Rows(hist[1].pre_test) :
          hist[1].pre_test.data[c][i] = NaN
    /\ \E c \in ListedColumns(column_dict) : \E i \in Rows(hist[1].pre_train) :
          hist[1].pre_train.data[c][i] = NaN
    /\ ReferenceHasValues(hist[1].pre_train)
    /\ hist[2].post_test = hist[1].post_test

(***************************************************************************)
(* Properties of transform_columns                                         *)
(***************************************************************************)
RowFrame(df, i) ==
    Frame(df.columns, <<df.index[i]>>, [c \in DOMAIN df.data |-> <<df.data[c][i]>>])

\* Targets to compare a call with: other frames of the same columns.
OtherTransformTargets ==
    {TransformBase,
     Frame(Columns, UniqueIndex(1),
           [c \in {"a", "b"} |-> IF c = "a" THEN <<Num(MaxVal)>> ELSE <<Num(1)>>])}

\* C3: the fitted parameters and the transformed reference of a successful
\* call are those of a call with any other target; the target is transformed
\* with exactly these parameters, and each of its rows comes out as it does
\* when it is the only row of the target.
C3_TransformIgnoresTarget ==
    \A k \in Calls :
        hist[k].status = "ok" =>
            /\ \A other \in OtherTransformTargets :
                  LET r == transform_columns(hist[k].pre_train, other, column_dict,
                                             cat_trans, num_trans)
                  IN  r.status = "ok" =>
                          /\ r.fitted = hist[k].fitted
                          /\ r.train = hist[k].ret_train
            /\ hist[k].ret_test.rows =
                  Transform(hist[k].fitted, hist[k].pre_test, cat_trans, num_trans)
            /\ \A i \in Rows(hist[k].pre_test) :
                  LET r == transform_columns(hist[k].pre_train, RowFrame(hist[k].pre_test, i),
                                             column_dict, cat_trans, num_trans)
                  IN  /\ r.status = "ok"
                      /\ r.fitted = hist[k].fitted
                      /\ r.test.rows[1] = hist[k].ret_test.rows[i]

C3_Witness ==
    \E k \in Calls :
        /\ hist[k].status = "ok"
        /\ column_dict["numeric"] = <<"a">>
        /\ column_dict["categorical"] = <<"b">>
        /\ num_trans = "standard_scaling"
        /\ hist[k].pre_train.data["a"] = <<Num(1), Num(2)>>
        /\ hist[k].pre_test.data["a"] = <<Num(2)>>
        /\ hist[k].fitted.scalers[1] = [mean |-> <<3, 2>>, var |-> <<1, 4>>]
        /\ hist[k].ret_test.rows[1][1] = Num(1)

\* The number of distinct levels of a reference column.
Levels(df, c) == Cardinality(SeqRange(df.data[c]))

\* k-1 summed over the listed categorical columns.
RECURSIVE IndicatorCount(_, _)
IndicatorCount(df, categorical) ==
    IF categorical = <<>> THEN 0
    ELSE (Levels(df, Head(categorical)) - 1) + IndicatorCount(df, Tail(categorical))

\* C8: with 'onehot_encoding' the output columns are the numeric columns in
\* their listed order, then k-1 indicator columns for each categorical
\* column with k levels in the reference dataset (none for its lowest
\* level); the transformed target has the same columns, and every row has
\* one cell per column.
C8_OneHotColumns ==
    \A k \in Calls :
        hist[k].status = "ok" /\ cat_trans = "onehot_encoding" =>
            LET numeric     == column_dict["numeric"]
                categorical == column_dict["categorical"]
                columns     == hist[k].ret_train.columns
                ref         == hist[k].pre_train
            IN  /\ Len(columns) =
                      Len(numeric) + IndicatorCount(ref, categorical)
                /\ \A p \in 1..Len(numeric) : columns[p] = Plain(numeric[p])
                /\ \A c \in SeqRange(categorical) :
                      /\ Cardinality({p \in (Len(numeric) + 1)..Len(columns) :
                                         columns[p][1] = c}) = Levels(ref, c) - 1
                      /\ \A p \in (Len(numeric) + 1)..Len(columns) :
                            columns[p][1] = c =>
                                /\ columns[p][2][1] \in SeqRange(ref.data[c])
                                /\ \E v \in SeqRange(ref.data[c]) : RatLess(v, columns[p][2][1])
                /\ hist[k].ret_test.columns = columns
                /\ \A i \in Rows(hist[k].pre_train) : Len(hist[k].ret_train.rows[i]) = Len(columns)
                /\ \A i \in Rows(hist[k].pre_test) : Len(hist[k].ret_test.rows[i]) = Len(columns)
                /\ hist[k].ret_train.index = ref.index
                /\ hist[k].ret_test.index = hist[k].pre_test.index

C8_Witness ==
    \E k \in Calls :
        /\ hist[k].status = "ok"
        /\ cat_trans = "onehot_encoding"
        /\ column_dict["numeric"] = <<"b">>
        /\ column_dict["categorical"] = <<"a">>
        /\ Levels(hist[k].pre_train, "a") = 2
        /\ hist[k].ret_train.columns = <<Plain("b"), FeatureName("a", Num(2))>>
        /\ hist[k].ret_test.columns = hist[k].ret_train.columns

\* C9: a call leaves the caller's two datasets as they were, and a call
\* right after another one returns (or fails with) the same as the first.
C9_TransformRepeatable ==
    \A k \in Calls :
        /\ k + 1 \in Calls =>
              /\ hist[k + 1].pre_train = hist[k].pre_train
              /\ hist[k + 1].pre_test = hist[k].pre_test
              /\ hist[k + 1].status = hist[k].status
              /\ hist[k + 1].ret_train = hist[k].ret_train
              /\ hist[k + 1].ret_test = hist[k].ret_test
        /\ k = Len(hist) =>
              /\ X_train = hist[k].pre_train
              /\ X_test = hist[k].pre_test

C9_Witness ==
    /\ Len(hist) >= 2
    /\ hist[1].status = "ok"
    /\ hist[2].status = "ok"
    /\ num_trans = "minmax_scaling"
    /\ column_dict["numeric"] = <<"a">>
    /\ hist[1].pre_train.data["a"] = <<Num(1), Num(2)>>
    /\ hist[2].ret_train.rows = <<<<Num(0)>>, <<Num(1)>>>>
    /\ hist[2].ret_train = hist[1].ret_train
    /\ X_train = hist[1].pre_train

\* The inputs the checks of transform_columns are said to turn away.
TransformMalformed(tr, te) ==
    \/ ~tr.isDF
    \/ ~te.isDF
    \/ tr.range
    \/ te.range
    \/ tr.columns # te.columns
    \/ Keys(column_dict) # {"numeric", "categorical"}
    \/ \E c \in ListedColumns(column_dict) : c \notin SeqRange(tr.columns)
    \/ num_trans \notin {"standard_scaling", "minmax_scaling"}
    \/ cat_trans \notin {"onehot_encoding", "label_encoding"}

\* C4 (transform_columns): every malformed input ends in an assertion
\* failure, and nothing else does.
C4_TransformMalformedRejected ==
    \A k \in Calls :
        TransformMalformed(hist[k].pre_train, hist[k].pre_test) <=>
            hist[k].status = "AssertionError"

====
